---- MODULE Spec2Model ----
(***************************************************************************)
(* Model of PictureStorage.py, the RGB 24-bit streaming codec: a file is   *)
(* written as a series of square PNG images (encrypt_file) and read back   *)
(* from them (decrypt_single_file, decrypt_file).                          *)
(*                                                                         *)
(* A pixel is a triple <<r, g, b>> of values 0..255.  A saved image is a   *)
(* record [index, size, cells, npix]: index is the NNN of its file name,   *)
(* cells the size*size raster in row-major order, npix the number of real  *)
(* pixels the encoder placed in it (not stored in the PNG; kept so that    *)
(* statements about the encoder can name it).                              *)
(***************************************************************************)
EXTENDS Integers, Sequences, FiniteSets, TLC

(***************************************************************************)
(* Bounds of the model.                                                    *)
(***************************************************************************)
\* Side of a full image.  The source has max_pixels_per_image = 10000 * 10000
\* (line 165); the model keeps the product form with a small side.
ImageSide == 3
\* Largest input file, in bytes.  Above 258 so that the decoder's fixed-width
\* arithmetic meets values that do not fit in 8 bits, with and without a
\* trailing partial pixel.
MaxFileSize == 260
\* Number of byte patterns input files are filled with.
NumPatterns == 2

(***************************************************************************)
(* Program constants.                                                      *)
(***************************************************************************)
\* mutant: an image bound that is not a square number
MaxPixelsNotSquare == ImageSide * ImageSide - 1
max_pixels_per_image == ImageSide * ImageSide
header_pixels == 5
WhiteChannel == 255
HeaderLengthBytes == 12

White == <<WhiteChannel, WhiteChannel, WhiteChannel>>

(***************************************************************************)
(* Arithmetic helpers.                                                     *)
(***************************************************************************)
Min(a, b) == IF a <= b THEN a ELSE b

\* math.ceil(a / b) for a >= 0, b > 0
CeilDiv(a, b) == (a + b - 1) \div b

\* math.ceil(np.sqrt(n))
CeilSqrt(n) == CHOOSE s \in 0..n : s * s >= n /\ (s = 0 \/ (s - 1) * (s - 1) < n)

(***************************************************************************)
(* Python integers of any size, as little-endian sequences of base-256     *)
(* digits (the empty sequence is 0).  The encoder's header arithmetic is   *)
(* done on Python integers.                                                *)
(***************************************************************************)
RECURSIVE NatToPy(_)
NatToPy(n) == IF n = 0 THEN <<>> ELSE <<n % 256>> \o NatToPy(n \div 256)

\* a k-digit number with top digit a and every lower digit low
Digits(k, a, low) == [i \in 1..k |-> IF i = k THEN a ELSE low]

\* temp & 0xFF
PyAnd255(x) == IF x = <<>> THEN 0 ELSE x[1]
\* temp >> 8
PyShr8(x) == IF x = <<>> THEN <<>> ELSE Tail(x)

RECURSIVE StripZeros(_)
StripZeros(x) ==
    IF x = <<>> THEN <<>>
    ELSE IF x[Len(x)] = 0 THEN StripZeros(SubSeq(x, 1, Len(x) - 1))
    ELSE x

RECURSIVE Reverse(_)
Reverse(s) == IF s = <<>> THEN <<>> ELSE Reverse(Tail(s)) \o <<Head(s)>>

(***************************************************************************)
(* create_header_pixels                                                    *)
(***************************************************************************)
\* the loop of lines 106-108: the k low bytes of temp, least significant first
RECURSIVE LengthBytesLE(_, _)
LengthBytesLE(temp, k) ==
    IF k = 0 THEN <<>>
    ELSE <<PyAnd255(temp)>> \o LengthBytesLE(PyShr8(temp), k - 1)

\* mutant: the 12 bytes are stored least significant first
create_header_pixelsLE(complete_pixels, extra_bits) ==
    LET length_bytes == LengthBytesLE(complete_pixels, HeaderLengthBytes)
    IN  [i \in 1..4 |-> <<length_bytes[(i - 1) * 3 + 1],
                         length_bytes[(i - 1) * 3 + 2],
                         length_bytes[(i - 1) * 3 + 3]>>]
        \o << <<0, 0, extra_bits>> >>

\* lines 99-121
create_header_pixels(complete_pixels, extra_bits) ==
    LET length_bytes == Reverse(LengthBytesLE(complete_pixels, HeaderLengthBytes))
    IN  [i \in 1..4 |-> <<length_bytes[(i - 1) * 3 + 1],
                         length_bytes[(i - 1) * 3 + 2],
                         length_bytes[(i - 1) * 3 + 3]>>]
        \o << <<0, 0, extra_bits>> >>

(***************************************************************************)
(* encrypt_file: metadata (step 2)                                         *)
(***************************************************************************)
\* mutant: num_images is floor(T / M) + 1 instead of ceil(T / M)
MetadataFloorPlusOne(file_size) ==
    LET total_bits == file_size * 8
        complete_pixels == total_bits \div 24
        extra_bits == total_bits % 24
        data_pixels == complete_pixels + (IF extra_bits > 0 THEN 1 ELSE 0)
        total_pixels_needed == header_pixels + data_pixels
    IN  [file_size |-> file_size,
         complete_pixels |-> complete_pixels,
         extra_bits |-> extra_bits,
         data_pixels |-> data_pixels,
         total_pixels_needed |-> total_pixels_needed,
         num_images |-> (total_pixels_needed \div max_pixels_per_image) + 1]

\* lines 155-166, from file_size = os.path.getsize(input_file_path)
Metadata(file_size) ==
    LET total_bits == file_size * 8
        complete_pixels == total_bits \div 24
        extra_bits == total_bits % 24
        data_pixels == complete_pixels + (IF extra_bits > 0 THEN 1 ELSE 0)
        total_pixels_needed == header_pixels + data_pixels
    IN  [file_size |-> file_size,
         complete_pixels |-> complete_pixels,
         extra_bits |-> extra_bits,
         data_pixels |-> data_pixels,
         total_pixels_needed |-> total_pixels_needed,
         num_images |-> CeilDiv(total_pixels_needed, max_pixels_per_image)]

(***************************************************************************)
(* encrypt_file: one iteration of the loop over image_num (step 4)         *)
(***************************************************************************)
\* mutant: the first image is not capped at max_pixels_per_image
PixelsInImageUncapped(image_num, total_pixels_needed) ==
    IF image_num = 0
    THEN total_pixels_needed
    ELSE LET pixels_already_written ==
                 header_pixels + (image_num - 1) * max_pixels_per_image
                 + (Min(max_pixels_per_image, total_pixels_needed) - header_pixels)
             pixels_remaining == total_pixels_needed - pixels_already_written
         IN  Min(max_pixels_per_image, pixels_remaining)

\* lines 211-220: pixels this image holds
PixelsInImage(image_num, total_pixels_needed) ==
    IF image_num = 0
    THEN Min(max_pixels_per_image, total_pixels_needed)
    ELSE LET pixels_already_written ==
                 header_pixels + (image_num - 1) * max_pixels_per_image
                 + (Min(max_pixels_per_image, total_pixels_needed) - header_pixels)
             pixels_remaining == total_pixels_needed - pixels_already_written
         IN  Min(max_pixels_per_image, pixels_remaining)

\* mutant: the header pixels are taken off every image, not only the first
DataPixelsInImageAll(image_num, total_pixels_needed) ==
    PixelsInImage(image_num, total_pixels_needed) - header_pixels

\* lines 214, 220
DataPixelsInImage(image_num, total_pixels_needed) ==
    IF image_num = 0
    THEN PixelsInImage(image_num, total_pixels_needed) - header_pixels
    ELSE PixelsInImage(image_num, total_pixels_needed)

\* mutant: the partial pixel is allowed for in every image, not only the last
BytesToReadPartialInAll(image_num, m) ==
    LET data_pixels_in_image == DataPixelsInImage(image_num, m.total_pixels_needed)
    IN  IF m.extra_bits > 0
        THEN (data_pixels_in_image - 1) * 3 + CeilDiv(m.extra_bits, 8)
        ELSE data_pixels_in_image * 3

\* lines 230-235
BytesToRead(image_num, m) ==
    LET data_pixels_in_image == DataPixelsInImage(image_num, m.total_pixels_needed)
    IN  IF image_num = m.num_images - 1 /\ m.extra_bits > 0
        THEN (data_pixels_in_image - 1) * 3 + CeilDiv(m.extra_bits, 8)
        ELSE data_pixels_in_image * 3

\* lines 238-247: f.read until bytes_to_read bytes are read or the file ends
ReadChunk(f, pos, bytes_to_read) ==
    SubSeq(f, pos + 1, Min(pos + bytes_to_read, Len(f)))

\* lines 256-268: bytes to pixels, a trailing group of 1 or 2 bytes zero-filled
RECURSIVE BytesToPixels(_)
BytesToPixels(chunk_bytes) ==
    IF chunk_bytes = <<>> THEN <<>>
    ELSE IF Len(chunk_bytes) >= 3
    THEN << <<chunk_bytes[1], chunk_bytes[2], chunk_bytes[3]>> >>
         \o BytesToPixels(SubSeq(chunk_bytes, 4, Len(chunk_bytes)))
    ELSE IF Len(chunk_bytes) = 2
    THEN << <<chunk_bytes[1], chunk_bytes[2], 0>> >>
    ELSE << <<chunk_bytes[1], 0, 0>> >>

\* mutant: pixel i is put at row i % size, column i // size
RasterColumnMajor(image_pixels) ==
    LET size == CeilSqrt(Len(image_pixels))
        Placed(row, col) ==
            {i \in 0..(Len(image_pixels) - 1) : i % size = row /\ i \div size = col}
    IN  [size |-> size,
         cells |-> [c \in 1..(size * size) |->
                       LET row == (c - 1) \div size
                           col == (c - 1) % size
                       IN  IF Placed(row, col) # {}
                           THEN image_pixels[(CHOOSE i \in Placed(row, col) : TRUE) + 1]
                           ELSE White]]

\* lines 270-280: the square raster of one image.  The array starts all white
\* (line 274) and pixel i is put at row i // size, column i % size (lines
\* 275-278); cells is the array in row-major order, cell (row, col) at
\* row * size + col + 1.
Raster(image_pixels) ==
    LET size == CeilSqrt(Len(image_pixels))
        Placed(row, col) ==
            {i \in 0..(Len(image_pixels) - 1) : i \div size = row /\ i % size = col}
    IN  [size |-> size,
         cells |-> [c \in 1..(size * size) |->
                       LET row == (c - 1) \div size
                           col == (c - 1) % size
                       IN  IF Placed(row, col) # {}
                           THEN image_pixels[(CHOOSE i \in Placed(row, col) : TRUE) + 1]
                           ELSE White]]

\* lines 222-291: the image written for image_num, reading the file from pos
EncodeImage(f, pos, image_num, m) ==
    LET chunk_bytes == ReadChunk(f, pos, BytesToRead(image_num, m))
        image_pixels ==
            (IF image_num = 0
             THEN create_header_pixels(NatToPy(m.complete_pixels), m.extra_bits)
             ELSE <<>>)
            \o BytesToPixels(chunk_bytes)
        r == Raster(image_pixels)
    IN  [image |-> [index |-> image_num + 1,
                    size |-> r.size,
                    cells |-> r.cells,
                    npix |-> Len(image_pixels)],
         read |-> Len(chunk_bytes)]

\* the whole loop of lines 209-297
RECURSIVE EncodeFrom(_, _, _, _)
EncodeFrom(f, pos, image_num, m) ==
    IF image_num >= m.num_images THEN <<>>
    ELSE LET e == EncodeImage(f, pos, image_num, m)
         IN  <<e.image>> \o EncodeFrom(f, pos + e.read, image_num + 1, m)

EncodeFile(f) == EncodeFrom(f, 0, 0, Metadata(Len(f)))

(***************************************************************************)
(* NumPy scalar arithmetic.  The channel values the decoder reads from an  *)
(* image array are np.uint8 scalars, and the decoder combines them with    *)
(* Python integers.  What type the result has is decided by the installed  *)
(* NumPy: before NumPy 2 a Python integer is taken as the default integer  *)
(* (C long: 64 bits, or 32 bits on Windows) and the result is that signed  *)
(* type; from NumPy 2 on (NEP 50) the Python integer adapts and the result *)
(* stays np.uint8.  Fixed-width values are little-endian sequences of      *)
(* NpWidth base-256 digits, in two's complement when the type is signed.   *)
(***************************************************************************)
NumpyBuilds == {"legacy_long64", "legacy_long32", "nep50"}

NpWidth(build) ==
    CASE build = "legacy_long64" -> 8
      [] build = "legacy_long32" -> 4
      [] build = "nep50" -> 1

NpSigned(build) == build # "nep50"

NpZero(build) == [i \in 1..NpWidth(build) |-> 0]

\* digits of x * k + c, kept to the width of x (the carry out is lost)
RECURSIVE MulAdd(_, _, _)
MulAdd(x, k, c) ==
    IF x = <<>> THEN <<>>
    ELSE LET v == x[1] * k + c
         IN  <<v % 256>> \o MulAdd(Tail(x), k, v \div 256)

RECURSIVE DigitsToNat(_)
DigitsToNat(x) == IF x = <<>> THEN 0 ELSE x[1] + 256 * DigitsToNat(Tail(x))

NpIsNegative(build, x) == NpSigned(build) /\ x[Len(x)] >= 128

\* magnitude of a negative two's complement value
NpNegate(x) == MulAdd([i \in 1..Len(x) |-> 255 - x[i]], 1, 1)

\* the integer a fixed-width value stands for
NpToInt(build, x) ==
    IF NpIsNegative(build, x) THEN 0 - DigitsToNat(NpNegate(x)) ELSE DigitsToNat(x)

\* Counters of the decode loop stay far below Far (2^30); a fixed-width value of
\* magnitude Far or more is kept as Far with its sign, which every comparison
\* with a counter and line 389 (Far // 100 is above 1024 * 1024) cannot tell
\* from the value itself.
Far == 1073741824

NpMagnitude(build, x) == StripZeros(IF NpIsNegative(build, x) THEN NpNegate(x) ELSE x)

NpIsFar(build, x) ==
    LET mag == NpMagnitude(build, x)
    IN  Len(mag) > 4 \/ (Len(mag) = 4 /\ mag[4] >= 64)

NpToCounter(build, x) ==
    IF NpIsFar(build, x)
    THEN (IF NpIsNegative(build, x) THEN 0 - Far ELSE Far)
    ELSE NpToInt(build, x)

\* (acc << 8) | byte_val in the accumulator's type: the top digit is shifted out
NpShl8Or(acc, byte_val) == <<byte_val>> \o SubSeq(acc, 1, Len(acc) - 1)

(***************************************************************************)
(* decrypt_single_file: the header of the first image                      *)
(***************************************************************************)
\* lines 345-351: cell i of the first image, i = 0..4 (row i // width, col i % width)
HeaderPixelsOf(first) == [i \in 1..5 |-> first.cells[i]]

\* lines 354-356
LengthBytesOf(hp) == hp[1] \o hp[2] \o hp[3] \o hp[4]

\* lines 358-360: complete_pixels = (complete_pixels << 8) | byte_val, from 0
RECURSIVE AccumulateBytes(_, _)
AccumulateBytes(acc, length_bytes) ==
    IF length_bytes = <<>> THEN acc
    ELSE AccumulateBytes(NpShl8Or(acc, Head(length_bytes)), Tail(length_bytes))

DecodeCompletePixels(build, hp) == AccumulateBytes(NpZero(build), LengthBytesOf(hp))

\* mutant: the value is taken from the red channel of pixel 4
DecodeExtraBitsRed(hp) == hp[5][1]

\* line 363
DecodeExtraBits(hp) == hp[5][3]

\* lines 385, 369: complete_pixels * 3
DecodeBytesTarget(complete_pixels) == MulAdd(complete_pixels, 3, 0)

\* lines 369-371
DecodeTotalBytes(complete_pixels, extra_bits) ==
    IF extra_bits > 0
    THEN MulAdd(MulAdd(complete_pixels, 3, 0), 1, CeilDiv(extra_bits, 8))
    ELSE MulAdd(complete_pixels, 3, 0)

(***************************************************************************)
(* decrypt_single_file: the decode loop (lines 392-454).  d is the record  *)
(* of the function's locals; d.out is what has been written to out_file.   *)
(***************************************************************************)
\* out_file.write(bytes([v])); bytes_written += 1
Emit(d, v) == [d EXCEPT !.out = Append(@, v), !.bytes_written = @ + 1]

\* lines 431-439
WriteRGB(d, px) ==
    LET d1 == IF d.bytes_written < d.bytes_target THEN Emit(d, px[1]) ELSE d
        d2 == IF d1.bytes_written < d.bytes_target THEN Emit(d1, px[2]) ELSE d1
        d3 == IF d2.bytes_written < d.bytes_target THEN Emit(d2, px[3]) ELSE d2
    IN  d3

\* lines 413-425
WriteExtra(d, px) ==
    IF d.extra_bits > 0 /\ d.bytes_written < d.total_bytes
    THEN LET extra_bytes_needed == CeilDiv(d.extra_bits, 8)
             d1 == IF d.bytes_written < d.total_bytes THEN Emit(d, px[1]) ELSE d
             d2 == IF d1.bytes_written < d.total_bytes /\ extra_bytes_needed > 1
                   THEN Emit(d1, px[2]) ELSE d1
             d3 == IF d2.bytes_written < d.total_bytes /\ extra_bytes_needed > 2
                   THEN Emit(d2, px[3]) ELSE d2
         IN  d3
    ELSE d

\* print_bytes_progress (lines 61-96) as called from line 443, with a Python
\* integer bytes_processed and the decoder's total_bytes: whether it raises.
\* Line 67 computes length * bytes_processed // total_bytes with length = 40.
\* When total_bytes is an np.uint8 (NumPy >= 2) the Python integer on the left
\* must fit np.uint8, or NumPy raises OverflowError; a signed 64- or 32-bit
\* total_bytes takes every value the loop produces.
ProgressRaises(build, bytes_processed, total_bytes) ==
    /\ build = "nep50"
    /\ total_bytes # 0
    /\ 40 * bytes_processed > 255

\* lines 441-444
UpdateProgress(build, d) ==
    IF d.bytes_written - d.last_update_bytes >= d.update_interval
       \/ d.bytes_written = d.total_bytes
    THEN IF ProgressRaises(build, d.bytes_written, d.total_bytes)
         THEN [d EXCEPT !.pc = "done", !.result = "OverflowError"]
         ELSE [d EXCEPT !.last_update_bytes = d.bytes_written]
    ELSE d

\* the exceptions decrypt_single_file ends with
Exceptions == {"IndexError", "OverflowError"}

\* lines 449-454 and the next image of the for of line 393; line 462
AfterImage(d, imgs) ==
    IF d.bytes_written >= d.total_bytes \/ d.idx + 1 > Len(imgs)
    THEN [d EXCEPT !.pc = "done", !.result = "True"]
    ELSE [d EXCEPT !.idx = @ + 1, !.row = 0, !.col = 0]

\* lines 446-447 and the next row of the for of line 404
AfterRow(d, imgs) ==
    IF d.bytes_written >= d.total_bytes \/ d.row + 1 >= imgs[d.idx].size
    THEN AfterImage(d, imgs)
    ELSE [d EXCEPT !.row = @ + 1, !.col = 0]

\* the next column of the for of line 405
AfterCell(d, imgs) ==
    IF d.col + 1 >= imgs[d.idx].size THEN AfterRow(d, imgs)
    ELSE [d EXCEPT !.col = @ + 1]

\* lines 406-444: the body of the inner loop at cell (d.row, d.col) of image d.idx
DecodeCell(build, d, imgs) ==
    LET width == imgs[d.idx].size
        pixel_idx == d.row * width + d.col
        px == imgs[d.idx].cells[pixel_idx + 1]
        start_pixel == IF d.idx = 1 THEN 5 ELSE 0
    IN  IF pixel_idx < start_pixel THEN AfterCell(d, imgs)
        ELSE IF d.bytes_written >= d.bytes_target
        THEN AfterRow(WriteExtra(d, px), imgs)
        ELSE LET w == UpdateProgress(build, WriteRGB(d, px))
             IN  IF w.pc = "done" THEN w ELSE AfterCell(w, imgs)

\* lines 340-371: the locals after the header of the first image is parsed
ParseHeader(build, imgs) ==
    LET hp == HeaderPixelsOf(imgs[1])
        complete_pixels == DecodeCompletePixels(build, hp)
        extra_bits == DecodeExtraBits(hp)
    IN  [complete_pixels |-> complete_pixels,
         extra_bits |-> extra_bits,
         total_bytes |-> NpToCounter(build, DecodeTotalBytes(complete_pixels, extra_bits)),
         bytes_target |-> NpToCounter(build, DecodeBytesTarget(complete_pixels))]

\* line 389
UpdateInterval(total_bytes) ==
    Min(1024 * 1024, IF total_bytes > 0 THEN total_bytes \div 100 ELSE 1024 * 1024)

\* the locals when the loop is entered (lines 384-393), or at return False
Locals(h, pc, result, opened) ==
    [pc |-> pc, result |-> result, opened |-> opened,
     complete_pixels |-> h.complete_pixels, extra_bits |-> h.extra_bits,
     total_bytes |-> h.total_bytes, bytes_target |-> h.bytes_target,
     bytes_written |-> 0,
     update_interval |-> UpdateInterval(h.total_bytes), last_update_bytes |-> 0,
     idx |-> 1, row |-> 0, col |-> 0, out |-> <<>>]

\* mutant: the existing destination is not checked for
StartDecodeNoCheck(build, imgs, destfile) ==
    [dec |-> Locals(ParseHeader(build, imgs), "loop", "none", TRUE),
     dest |-> [exists |-> TRUE, data |-> <<>>]]

\* lines 340-393: the header is parsed; if the destination exists the function
\* returns False (lines 379-381), else the destination is opened with 'wb',
\* which creates it empty, and the loop is entered
StartDecode(build, imgs, destfile) ==
    LET h == ParseHeader(build, imgs)
    IN  IF destfile.exists
        THEN [dec |-> Locals(h, "done", "False", FALSE), dest |-> destfile]
        ELSE [dec |-> Locals(h, "loop", "none", TRUE),
              dest |-> [exists |-> TRUE, data |-> <<>>]]

\* the loop run to its end
RECURSIVE RunLoop(_, _, _)
RunLoop(build, d, imgs) ==
    IF d.pc = "loop" THEN RunLoop(build, DecodeCell(build, d, imgs), imgs) ELSE d

\* decrypt_single_file on a series whose destination does not exist
DecodeSeries(build, imgs) ==
    RunLoop(build, StartDecode(build, imgs, [exists |-> FALSE, data |-> <<>>]).dec, imgs)

(***************************************************************************)
(* Input files.                                                            *)
(***************************************************************************)
\* byte i of the file of pattern p: pattern 2 is all 255 (the padding value),
\* the others change from byte to byte
PatternByte(p, i) == IF p = 2 THEN 255 ELSE (i * (36 + p) + 10 + p) % 256

FileOf(p, n) == [i \in 1..n |-> PatternByte(p, i)]

InputFiles == {FileOf(p, n) : p \in 1..NumPatterns, n \in 0..MaxFileSize}

\* what a destination file that exists before decoding may hold
ExistingContents == {<<>>, <<7, 7>>}

(***************************************************************************)
(* State.                                                                  *)
(***************************************************************************)
VARIABLES
    numpy,    \* the installed NumPy's promotion rules, one of NumpyBuilds
    file,     \* the bytes of the input file of encrypt_file
    enc,      \* encrypt_file: its position and locals
    images,   \* the image files of the series in the directory, by file name
    missing,  \* how many image files of the series were removed after encoding
    dest,     \* the destination file base.ext of the decoder: [exists, data]
    dec,      \* decrypt_single_file: its position and locals
    at_call,  \* the destination file as it was when decrypt_single_file was called
    left_by_abort,  \* the destination file as a call that ended with an exception
              \* after opening it left it, while that file is still there
    hdr,      \* the header codec on its own: its position, input and results
    dir,      \* decrypt_file, directory mode: the image files, by (base, ext)
    dests,    \* decrypt_file, directory mode: the destination files, by (base, ext)
    batch     \* decrypt_file, directory mode: its position and locals

vars == <<numpy, file, enc, images, missing, dest, dec, at_call, left_by_abort,
          hdr, dir, dests, batch>>

\* the parts of the state the single-series codec does not touch
others == <<hdr, dir, dests, batch>>

Absent == [exists |-> FALSE, data |-> <<>>]

Init ==
    /\ numpy \in NumpyBuilds
    /\ file \in InputFiles
    /\ enc = [pc |-> "start"]
    /\ images = <<>>
    /\ missing = 0
    /\ dest = Absent
    /\ dec = [pc |-> "idle"]
    /\ at_call = Absent
    /\ left_by_abort = Absent
    /\ hdr = [pc |-> "off"]
    /\ dir = <<>>
    /\ dests = <<>>
    /\ batch = [pc |-> "off"]

(***************************************************************************)
(* encrypt_file                                                            *)
(***************************************************************************)
\* lines 130-206: the metadata is computed and the user answers 'y'
EncryptStart ==
    /\ enc.pc = "start"
    /\ enc' = [pc |-> "encoding", m |-> Metadata(Len(file)),
               image_num |-> 0, bytes_processed |-> 0]
    /\ UNCHANGED <<numpy, file, images, missing, dest, dec, at_call, left_by_abort, others>>

\* lines 188-191: any other answer, nothing is written
EncryptCancel ==
    /\ enc.pc = "start"
    /\ enc' = [pc |-> "cancelled"]
    /\ UNCHANGED <<numpy, file, images, missing, dest, dec, at_call, left_by_abort, others>>

\* lines 209-297: one iteration of the loop, the image image_num + 1 is saved
EncryptImage ==
    /\ enc.pc = "encoding"
    /\ enc.image_num < enc.m.num_images
    /\ LET e == EncodeImage(file, enc.bytes_processed, enc.image_num, enc.m)
       IN  /\ images' = Append(images, e.image)
           /\ enc' = [enc EXCEPT
                        !.pc = IF enc.image_num + 1 >= enc.m.num_images
                               THEN "encoded" ELSE "encoding",
                        !.image_num = @ + 1,
                        !.bytes_processed = @ + e.read]
    /\ UNCHANGED <<numpy, file, missing, dest, dec, at_call, left_by_abort, others>>

(***************************************************************************)
(* The directory between encoding and decoding.                            *)
(***************************************************************************)
\* a file named base.ext is in the directory before the series is decoded
PlaceDestination ==
    /\ enc.pc = "encoded"
    /\ dec.pc = "idle"
    /\ ~dest.exists
    /\ \E c \in ExistingContents : dest' = [exists |-> TRUE, data |-> c]
    /\ UNCHANGED <<numpy, file, enc, images, missing, dec, at_call, left_by_abort, others>>

\* the last image file of the series is missing from the directory
LoseLastImage ==
    /\ enc.pc = "encoded"
    /\ dec.pc = "idle"
    /\ missing = 0
    /\ Len(images) >= 2
    /\ images' = SubSeq(images, 1, Len(images) - 1)
    /\ missing' = 1
    /\ UNCHANGED <<numpy, file, enc, dest, dec, at_call, left_by_abort, others>>

(***************************************************************************)
(* decrypt_single_file                                                     *)
(***************************************************************************)
\* lines 320-381 when the destination exists
DecryptSkipExisting ==
    /\ enc.pc = "encoded"
    /\ dec.pc = "idle"
    /\ dest.exists
    /\ dec' = StartDecode(numpy, images, dest).dec
    /\ dest' = StartDecode(numpy, images, dest).dest
    /\ at_call' = dest
    /\ UNCHANGED <<numpy, file, enc, images, missing, left_by_abort, others>>

\* lines 320-393 when it does not: open(output_file_path, 'wb')
DecryptOpenOutput ==
    /\ enc.pc = "encoded"
    /\ dec.pc = "idle"
    /\ ~dest.exists
    /\ dec' = StartDecode(numpy, images, dest).dec
    /\ dest' = StartDecode(numpy, images, dest).dest
    /\ at_call' = dest
    /\ UNCHANGED <<numpy, file, enc, images, missing, left_by_abort, others>>

\* mutant: the destination is deleted when the loop ends with an exception
DecryptCellCleanup ==
    /\ dec.pc = "loop"
    /\ dec' = DecodeCell(numpy, dec, images)
    /\ dest' = IF dec'.result \in Exceptions THEN Absent
               ELSE [exists |-> TRUE, data |-> dec'.out]
    /\ left_by_abort' = IF dec'.result \in Exceptions
                        THEN [exists |-> TRUE, data |-> dec'.out] ELSE left_by_abort
    /\ UNCHANGED <<numpy, file, enc, images, missing, at_call, others>>

\* lines 404-454: one cell of the raster walk.  An exception leaves the with
\* block of line 392, which closes the destination and keeps it.
DecryptCell ==
    /\ dec.pc = "loop"
    /\ dec' = DecodeCell(numpy, dec, images)
    /\ dest' = [exists |-> TRUE, data |-> dec'.out]
    /\ left_by_abort' = IF dec'.result \in Exceptions THEN dest' ELSE left_by_abort
    /\ UNCHANGED <<numpy, file, enc, images, missing, at_call, others>>

\* lines 381, 462 or an exception: the call is over, the function can be called
\* again for the series
DecryptReturn ==
    /\ enc.pc = "encoded"
    /\ dec.pc = "done"
    /\ dec' = [pc |-> "idle"]
    /\ at_call' = Absent
    /\ UNCHANGED <<numpy, file, enc, images, missing, dest, left_by_abort, others>>

\* the destination file is deleted by the user between two calls
RemoveDestination ==
    /\ enc.pc = "encoded"
    /\ dec.pc = "idle"
    /\ dest.exists
    /\ dest' = Absent
    /\ left_by_abort' = Absent
    /\ UNCHANGED <<numpy, file, enc, images, missing, dec, at_call, others>>

Next ==
    \/ EncryptStart
    \/ EncryptCancel
    \/ EncryptImage
    \/ PlaceDestination
    \/ LoseLastImage
    \/ DecryptSkipExisting
    \/ DecryptOpenOutput
    \/ DecryptCell
    \/ DecryptReturn
    \/ RemoveDestination

Spec == Init /\ [][Next]_vars

(***************************************************************************)
(* decrypt_single_file on a series that encrypt_file did not write: image  *)
(* files under a series name whose first five pixels are any header.       *)
(***************************************************************************)
\* side of the images of such a series
ForeignSide == 3

\* the complete_pixels their headers declare: small counts, counts whose
\* triple passes 8, 31 and 63 bits, and counts of more than 64 bits
ForeignCompletePixels ==
    {NatToPy(n) : n \in 0..6} \cup {NatToPy(85), NatToPy(86), NatToPy(171)}
    \cup {Digits(4, 42, 170), Digits(8, 42, 170), Digits(9, 1, 0), Digits(12, 255, 255)}

\* the extra_bits their headers declare
ForeignExtraBits == {0, 1, 8, 9, 16, 17, 23, 24, 25, 255}

\* cell c of image i, where it is not a header pixel
ForeignCell(i, c) ==
    <<(16 * i + c) % 256, (16 * i + c + 100) % 256, (16 * i + c + 200) % 256>>

ForeignSeries(complete_pixels, extra_bits, n) ==
    [i \in 1..n |->
        [index |-> i,
         size |-> ForeignSide,
         cells |-> [c \in 1..(ForeignSide * ForeignSide) |->
                       IF i = 1 /\ c <= 5
                       THEN create_header_pixels(complete_pixels, extra_bits)[c]
                       ELSE ForeignCell(i, c)],
         npix |-> ForeignSide * ForeignSide]]

ForeignInit ==
    /\ numpy \in NumpyBuilds
    /\ images \in {ForeignSeries(cp, eb, n) :
                      cp \in ForeignCompletePixels, eb \in ForeignExtraBits, n \in 1..2}
    /\ file = <<>>
    /\ enc = [pc |-> "off"]
    /\ missing = 0
    /\ dest = Absent
    /\ dec = [pc |-> "idle"]
    /\ at_call = Absent
    /\ left_by_abort = Absent
    /\ hdr = [pc |-> "off"]
    /\ dir = <<>>
    /\ dests = <<>>
    /\ batch = [pc |-> "off"]

\* lines 320-393 on that series
ForeignCall ==
    /\ enc.pc = "off"
    /\ dec.pc = "idle"
    /\ dec' = StartDecode(numpy, images, dest).dec
    /\ dest' = StartDecode(numpy, images, dest).dest
    /\ at_call' = dest
    /\ UNCHANGED <<numpy, file, enc, images, missing, left_by_abort, others>>

ForeignNext == ForeignCall \/ DecryptCell

SpecForeign == ForeignInit /\ [][ForeignNext]_vars

(***************************************************************************)
(* The header codec on its own: create_header_pixels, then the decoder's   *)
(* header steps on the five pixels, for header values of up to 96 bits.    *)
(***************************************************************************)
\* largest complete_pixels given as a plain number
MaxHeaderSmall == 260

HeaderInputs ==
    {NatToPy(n) : n \in 0..MaxHeaderSmall}
    \cup {Digits(k, a, low) : k \in 1..HeaderLengthBytes,
                              a \in {1, 127, 128, 255}, low \in {0, 255}}

HeaderInit ==
    /\ numpy \in NumpyBuilds
    /\ hdr \in [pc : {"input"}, complete_pixels : HeaderInputs, extra_bits : 0..23]
    /\ file = <<>>
    /\ enc = [pc |-> "off"]
    /\ images = <<>>
    /\ missing = 0
    /\ dest = Absent
    /\ dec = [pc |-> "off"]
    /\ at_call = Absent
    /\ left_by_abort = Absent
    /\ dir = <<>>
    /\ dests = <<>>
    /\ batch = [pc |-> "off"]

\* create_header_pixels(complete_pixels, extra_bits)
HeaderEncode ==
    /\ hdr.pc = "input"
    /\ hdr' = [pc |-> "encoded",
               complete_pixels |-> hdr.complete_pixels,
               extra_bits |-> hdr.extra_bits,
               pixels |-> create_header_pixels(hdr.complete_pixels, hdr.extra_bits)]
    /\ UNCHANGED <<numpy, file, enc, images, missing, dest, dec, at_call, left_by_abort,
                   dir, dests, batch>>

\* lines 353-371, 385 on those five pixels
HeaderDecode ==
    /\ hdr.pc = "encoded"
    /\ LET cp == DecodeCompletePixels(numpy, hdr.pixels)
       IN  hdr' = [pc |-> "decoded",
                   complete_pixels |-> hdr.complete_pixels,
                   extra_bits |-> hdr.extra_bits,
                   pixels |-> hdr.pixels,
                   decoded_complete_pixels |-> cp,
                   decoded_extra_bits |-> DecodeExtraBits(hdr.pixels),
                   bytes_target |-> DecodeBytesTarget(cp)]
    /\ UNCHANGED <<numpy, file, enc, images, missing, dest, dec, at_call, left_by_abort,
                   dir, dests, batch>>

HeaderNext == HeaderEncode \/ HeaderDecode

SpecHeader == HeaderInit /\ [][HeaderNext]_vars

(***************************************************************************)
(* decrypt_file, directory mode.                                           *)
(***************************************************************************)
\* the series a directory may hold, by (base, ext); bases in sorted order
BaseOrder == <<"a", "b">>
SeriesKeys == {<<"a", "x">>, <<"a", "y">>, <<"b", "x">>}

\* files encoded into the directory: one image, and header plus one full image
BatchFiles == {FileOf(1, 2), FileOf(3, 3 * max_pixels_per_image)}

\* a 2 x 2 PNG under a series name: too small to hold the five header pixels
TinySeries == << [index |-> 1, size |-> 2, cells |-> [c \in 1..4 |-> White], npix |-> 4] >>

BatchSeries == {<<>>} \cup {EncodeFile(f) : f \in BatchFiles} \cup {TinySeries}

\* decrypt_single_file as one call: what it returns or that it raised, and the
\* destination afterwards.  Line 350 raises IndexError when the raster of the
\* first image has no cell (i // width, i % width) for some i < 5.
DecryptSingleFile(build, imgs, destfile) ==
    IF imgs[1].size * imgs[1].size < 5
    THEN [result |-> "IndexError", dest |-> destfile]
    ELSE LET s == StartDecode(build, imgs, destfile)
         IN  IF s.dec.pc = "done"
             THEN [result |-> s.dec.result, dest |-> s.dest]
             ELSE LET d == RunLoop(build, s.dec, imgs)
                  IN  [result |-> d.result, dest |-> [exists |-> TRUE, data |-> d.out]]

\* mutant: an exception of decrypt_single_file is not caught and ends the run
BatchAfterUncaught(b, result) ==
    IF result \in Exceptions
    THEN [b EXCEPT !.pc = "raised", !.results = Append(@, result)]
    ELSE [b EXCEPT !.todo = Tail(@),
                   !.successful = IF result = "True" THEN @ + 1 ELSE @,
                   !.results = Append(@, result),
                   !.pc = IF Tail(b.todo) = <<>> THEN "summary" ELSE "loop"]

\* lines 509-521: the locals after one iteration whose call ended with result;
\* after the last one the summary is printed
BatchAfter(b, result) ==
    [b EXCEPT !.todo = Tail(@),
              !.successful = IF result = "True" THEN @ + 1 ELSE @,
              !.results = Append(@, result),
              !.pc = IF Tail(b.todo) = <<>> THEN "summary" ELSE "loop"]

HasFiles(base) == \E k \in SeriesKeys : k[1] = base /\ dir[k] # <<>>

BatchInit ==
    /\ numpy \in NumpyBuilds
    /\ dir \in [SeriesKeys -> BatchSeries]
    /\ dests \in [SeriesKeys -> {Absent, [exists |-> TRUE, data |-> <<7, 7>>]}]
    /\ \A k \in SeriesKeys : dir[k] = <<>> => dests[k] = Absent
    /\ batch = [pc |-> "start"]
    /\ file = <<>>
    /\ enc = [pc |-> "off"]
    /\ images = <<>>
    /\ missing = 0
    /\ dest = Absent
    /\ dec = [pc |-> "off"]
    /\ at_call = Absent
    /\ left_by_abort = Absent
    /\ hdr = [pc |-> "off"]

\* lines 478-481: no PNG file in the directory, FileNotFoundError
BatchNoFiles ==
    /\ batch.pc = "start"
    /\ \A k \in SeriesKeys : dir[k] = <<>>
    /\ batch' = [pc |-> "raised"]
    /\ UNCHANGED <<numpy, file, enc, images, missing, dest, dec, at_call, left_by_abort,
                   hdr, dir, dests>>

\* lines 486-507: the files are grouped by base name
BatchStart ==
    /\ batch.pc = "start"
    /\ \E k \in SeriesKeys : dir[k] # <<>>
    /\ batch' = [pc |-> "loop",
                 todo |-> SelectSeq(BaseOrder, HasFiles),
                 successful |-> 0,
                 results |-> <<>>,
                 calls |-> <<>>]
    /\ UNCHANGED <<numpy, file, enc, images, missing, dest, dec, at_call, left_by_abort,
                   hdr, dir, dests>>

\* lines 509-515: one iteration; files[0] is whichever file of the group glob
\* listed first, and its name gives the (base, ext) that is decoded.  calls
\* keeps the (base, ext) of every call of decrypt_single_file made so far.
BatchIteration ==
    /\ batch.pc = "loop"
    /\ batch.todo # <<>>
    /\ \E k \in SeriesKeys :
          /\ k[1] = Head(batch.todo)
          /\ dir[k] # <<>>
          /\ LET r == DecryptSingleFile(numpy, dir[k], dests[k])
             IN  /\ dests' = [dests EXCEPT ![k] = r.dest]
                 /\ batch' = [BatchAfter(batch, r.result) EXCEPT !.calls = Append(@, k)]
    /\ UNCHANGED <<numpy, file, enc, images, missing, dest, dec, at_call, left_by_abort,
                   hdr, dir>>

BatchNext == BatchNoFiles \/ BatchStart \/ BatchIteration

SpecBatch == BatchInit /\ [][BatchNext]_vars

(***************************************************************************)
(* Properties of the single-series codec, checked under Spec.              *)
(***************************************************************************)
\* the integer a fixed-width value stands for, as sign and digits
NpValue(build, x) ==
    IF NpIsNegative(build, x)
    THEN [neg |-> TRUE, mag |-> StripZeros(NpNegate(x))]
    ELSE [neg |-> FALSE, mag |-> StripZeros(x)]

\* a non-negative integer of any size, likewise
PyValue(x) == [neg |-> FALSE, mag |-> StripZeros(x)]

\* what the file's size makes of the header fields and of the pixel total
FileCompletePixels == Len(file) \div 3
FileExtraBits == 8 * (Len(file) % 3)
FileTotalPixels == 5 + FileCompletePixels + (IF FileExtraBits > 0 THEN 1 ELSE 0)

\* the header of image 1 read as exact integers
HeaderCompletePixels(imgs) ==
    DigitsToNat(Reverse(LengthBytesOf(HeaderPixelsOf(imgs[1]))))
HeaderExtraBits(imgs) == imgs[1].cells[5][3]
HeaderTotalBytes(imgs) ==
    HeaderCompletePixels(imgs) * 3 + CeilDiv(HeaderExtraBits(imgs), 8)

RECURSIVE CellsIn(_)
CellsIn(imgs) ==
    IF imgs = <<>> THEN 0 ELSE Head(imgs).size * Head(imgs).size + CellsIn(Tail(imgs))

\* C1: decoding the complete series encrypt_file wrote for a file, with no
\* destination in the way, writes exactly the bytes of that file.
C1_RoundTrip ==
    (dec.pc = "done" /\ dec.opened /\ missing = 0) =>
        dec.result = "True" /\ dest.data = file

\* C2: the extra_bits the encoder computes, stores in the blue channel of header
\* pixel 4 and the decoder reads back is 8 * (file_size mod 3), one of 0, 8, 16.
C2_ExtraBits ==
    /\ enc.pc \in {"encoding", "encoded"} =>
          enc.m.extra_bits = FileExtraBits /\ enc.m.extra_bits \in {0, 8, 16}
    /\ images # <<>> => images[1].cells[5] = <<0, 0, FileExtraBits>>
    /\ dec.pc \in {"loop", "done"} =>
          dec.extra_bits = FileExtraBits /\ dec.extra_bits \in {0, 8, 16}

C2_Witness ==
    dec.pc = "done" /\ dec.result = "True" /\ dec.extra_bits = 16 /\ Len(file) > 3

\* C3: every image encrypt_file saves holds at least 1 and at most
\* max_pixels_per_image real pixels.
C3_ImageBound ==
    \A i \in 1..Len(images) :
        images[i].npix >= 1 /\ images[i].npix <= max_pixels_per_image

C3_Witness ==
    /\ Len(images) >= 3
    /\ images[1].npix = max_pixels_per_image
    /\ images[Len(images)].npix = 1

\* C4: encrypt_file writes exactly ceil(T / M) images, T = 5 + complete_pixels +
\* (1 if extra_bits > 0), numbered 1, 2, ... without gaps: one when T <= M, two
\* when T = M + 1.
C4_PartitionCount ==
    (enc.pc = "encoded" /\ missing = 0) =>
        LET n == Len(images)
            T == FileTotalPixels
            M == max_pixels_per_image
        IN  /\ (n - 1) * M < T /\ T <= n * M
            /\ n = enc.m.num_images
            /\ \A i \in 1..n : images[i].index = i
            /\ T <= M => n = 1
            /\ T = M + 1 => n = 2

C4_Witness ==
    /\ enc.pc = "encoded" /\ missing = 0
    /\ FileTotalPixels = max_pixels_per_image + 1
    /\ Len(images) = 2

\* the series with every cell beyond an image's real pixels set to p
Repad(imgs, p) ==
    [i \in 1..Len(imgs) |->
        [imgs[i] EXCEPT !.cells =
            [c \in 1..(imgs[i].size * imgs[i].size) |->
                IF c > imgs[i].npix THEN p ELSE imgs[i].cells[c]]]]

AltPadding == {<<0, 0, 0>>, <<1, 2, 3>>}

\* C5: a series encrypt_file wrote and a copy of it that differs only in the
\* padding cells decode to the same bytes.
C5_PaddingNeutral ==
    (enc.pc = "encoded" /\ dec.pc = "idle" /\ missing = 0 /\ ~dest.exists) =>
        \A p \in AltPadding :
            DecodeSeries(numpy, Repad(images, p)).out = DecodeSeries(numpy, images).out

C5_Witness ==
    /\ enc.pc = "encoded" /\ dec.pc = "idle" /\ missing = 0 /\ ~dest.exists
    /\ Len(images) >= 2
    /\ images[Len(images)].npix < images[Len(images)].size * images[Len(images)].size
    /\ Repad(images, <<0, 0, 0>>) # images
    /\ Len(file) > 0
    /\ DecodeSeries(numpy, Repad(images, <<0, 0, 0>>)).out = file

\* C6: when the images hold fewer cells after the 5 header pixels than the header
\* declares pixels, decrypt_single_file ends with an exception, not with True.
C6_ShortfallFatal ==
    (/\ dec.pc = "done"
     /\ dec.opened
     /\ CellsIn(images) - 5 <
            HeaderCompletePixels(images) + (IF HeaderExtraBits(images) > 0 THEN 1 ELSE 0))
    => dec.result \in Exceptions

\* C7: called when the destination exists, decrypt_single_file returns False,
\* never opens the destination for writing and leaves its content as it was.
C7_SkipExisting ==
    (dec.pc # "idle" /\ at_call.exists) =>
        /\ dec.pc = "done"
        /\ dec.result = "False"
        /\ ~dec.opened
        /\ dest = at_call

C7_Witness ==
    /\ dec.pc = "done" /\ dec.result = "False"
    /\ at_call = [exists |-> TRUE, data |-> <<7, 7>>]
    /\ dest = at_call

\* C10: when decrypt_single_file returns True, the bytes written to the output
\* number complete_pixels * 3 + ceil(extra_bits / 8), as the header of image 1
\* gives them.
C10_ExactLength ==
    (dec.pc = "done" /\ dec.result = "True") =>
        Len(dest.data) = HeaderTotalBytes(images)

\* the place of cell (row, col) of image idx in the raster walk over the whole
\* series, counted from 0
WalkIndex(imgs, idx, row, col) ==
    CellsIn(SubSeq(imgs, 1, idx - 1)) + row * imgs[idx].size + col

\* C15: in the decode of a complete series, a byte is written by the extra-bits
\* branch only when complete_pixels * 3 bytes have been written; the pixel it
\* is taken from is the one that follows the last complete pixel in raster and
\* image order; exactly ceil(extra_bits / 8) bytes, its leading channels, are
\* written; no pixel is read after it; and when extra_bits > 0 a decode that
\* wrote the complete pixels and returned True wrote those bytes too.
C15_ResidualStage ==
    [][(dec.pc = "loop" /\ missing = 0) =>
          LET complete_pixels == HeaderCompletePixels(images)
              extra_bytes == CeilDiv(HeaderExtraBits(images), 8)
              px == images[dec.idx].cells[dec.row * images[dec.idx].size + dec.col + 1]
              residual == /\ dec.bytes_written >= dec.bytes_target
                          /\ Len(dec'.out) > Len(dec.out)
          IN  /\ residual =>
                    /\ dec.bytes_written = complete_pixels * 3
                    /\ WalkIndex(images, dec.idx, dec.row, dec.col)
                          = header_pixels + complete_pixels
                    /\ dec'.out = dec.out \o SubSeq(px, 1, extra_bytes)
                    /\ dec'.pc = "done"
              /\ (/\ dec'.pc = "done"
                  /\ dec'.result = "True"
                  /\ HeaderExtraBits(images) > 0
                  /\ Len(dec'.out) >= complete_pixels * 3)
                 => Len(dec'.out) = complete_pixels * 3 + extra_bytes]_vars

RECURSIVE PixelsIn(_)
PixelsIn(imgs) == IF imgs = <<>> THEN 0 ELSE Head(imgs).npix + PixelsIn(Tail(imgs))

\* C12: with T = 5 + data pixels and M = max_pixels_per_image, image 1 holds
\* min(M, T) pixels and its first 5 are the header; every image between the
\* first and the last holds M pixels; the last image, when it is not image 1,
\* holds T mod M pixels, or M when M divides T; the counts sum to T; and the
\* count the loop computes for an image is never zero or negative.
C12_PartitionSizes ==
    (enc.pc = "encoded" /\ missing = 0) =>
        LET n == Len(images)
            T == FileTotalPixels
            M == max_pixels_per_image
        IN  /\ images[1].npix = Min(M, T)
            /\ [c \in 1..5 |-> images[1].cells[c]]
                  = create_header_pixels(NatToPy(FileCompletePixels), FileExtraBits)
            /\ \A i \in 2..(n - 1) : images[i].npix = M
            /\ n > 1 => images[n].npix = (IF T % M = 0 THEN M ELSE T % M)
            /\ PixelsIn(images) = T
            /\ \A i \in 1..n :
                  /\ PixelsInImage(i - 1, T) > 0
                  /\ images[i].npix = PixelsInImage(i - 1, T)

C12_Witness ==
    /\ enc.pc = "encoded" /\ missing = 0
    /\ Len(images) >= 3
    /\ FileTotalPixels % max_pixels_per_image = 0
    /\ images[Len(images)].npix = max_pixels_per_image

\* the number of payload pixels that come before cell c (from 1) of image i
PayloadBefore(imgs, i, c) == PixelsIn(SubSeq(imgs, 1, i - 1)) + (c - 1) - header_pixels

\* C13: every image but the last consumes 3 bytes of the file for each of its
\* payload pixels, so no pixel's bytes lie in two images; a pixel made of 1 or 2
\* bytes, its other channels 0, is only ever the last pixel of the last image,
\* and only when extra_bits > 0.
C13_AtomicPixels ==
    /\ (enc.pc = "encoding" /\ images # <<>>) =>
          /\ enc.bytes_processed % 3 = 0
          /\ enc.bytes_processed = 3 * (PixelsIn(images) - header_pixels)
    /\ enc.pc \in {"encoding", "encoded"} =>
          \A i \in 1..Len(images) : \A c \in 1..images[i].npix :
              LET b == 3 * PayloadBefore(images, i, c)
                  px == images[i].cells[c]
              IN  b >= 0 =>
                    IF b + 3 <= Len(file)
                    THEN px = <<file[b + 1], file[b + 2], file[b + 3]>>
                    ELSE /\ i = enc.m.num_images
                         /\ c = images[i].npix
                         /\ enc.m.extra_bits > 0
                         /\ Len(file) - b \in {1, 2}
                         /\ px = (IF Len(file) - b = 2
                                  THEN <<file[b + 1], file[b + 2], 0>>
                                  ELSE <<file[b + 1], 0, 0>>)

C13_Witness ==
    /\ enc.pc = "encoded" /\ missing = 0
    /\ Len(images) >= 3
    /\ enc.m.extra_bits = 16
    /\ LET last == images[Len(images)]
       IN  /\ last.cells[last.npix][2] # 0
           /\ last.cells[last.npix][3] = 0
           /\ last.npix >= 2

\* byte x (from 1) of the file, 0 beyond its end
FileByte(x) == IF x <= Len(file) THEN file[x] ELSE 0

\* pixel j (from 0) of the pixel list image i is made from: the header pixels,
\* then the file's bytes three by three
ImagePixel(i, j) ==
    IF i = 1 /\ j < header_pixels
    THEN create_header_pixels(NatToPy(FileCompletePixels), FileExtraBits)[j + 1]
    ELSE LET b == 3 * PayloadBefore(images, i, j + 1)
         IN  <<FileByte(b + 1), FileByte(b + 2), FileByte(b + 3)>>

\* the pixel at (row, col) of an image
PixelAt(img, row, col) == img.cells[row * img.size + col + 1]

\* C16: an image made from a list of n >= 1 pixels is a square of side
\* size = ceil(sqrt(n)), so size^2 >= n; pixel i of the list is at row
\* i div size, column i mod size; every cell from index n on is (255,255,255);
\* and the padding cells number less than 2 * size + 1.  (The images do not
\* change while they are decoded: the walk over them is made before.)
C16_RasterLayout ==
    (enc.pc \in {"encoding", "encoded"} /\ dec.pc = "idle") =>
        \A i \in 1..Len(images) :
            LET img == images[i]
                n == img.npix
                size == img.size
            IN  /\ n >= 1
                /\ size * size >= n
                /\ (size - 1) * (size - 1) < n
                /\ Len(img.cells) = size * size
                /\ \A j \in 0..(n - 1) :
                      PixelAt(img, j \div size, j % size) = ImagePixel(i, j)
                /\ \A j \in n..(size * size - 1) :
                      PixelAt(img, j \div size, j % size) = <<255, 255, 255>>
                /\ size * size - n < 2 * size + 1

C16_Witness ==
    /\ enc.pc = "encoded" /\ dec.pc = "idle" /\ missing = 0
    /\ Len(images) = 2
    /\ images[2].npix = 5
    /\ images[2].size = 3
    /\ PixelAt(images[2], 1, 1) = ImagePixel(2, 4)
    /\ PixelAt(images[2], 1, 1) # <<255, 255, 255>>
    /\ PixelAt(images[2], 1, 2) = <<255, 255, 255>>

\* C19: the destination exists from the moment it is opened, before any byte
\* is written, and holds what has been written, also after the loop has ended
\* with an exception; from then on, until the file is deleted by the user, it
\* stays as the aborted call left it, and every later call of
\* decrypt_single_file for the series returns False without opening it.
C19_AbortLeavesPartial ==
    /\ (dec.pc \in {"loop", "done"} /\ dec.opened) =>
          dest.exists /\ dest.data = dec.out
    /\ left_by_abort.exists =>
          /\ dest = left_by_abort
          /\ dec.pc \in {"idle", "done"}
          /\ dec.pc = "done" =>
                \/ dec.result \in Exceptions /\ dec.opened
                \/ dec.result = "False" /\ ~dec.opened /\ dec.out = <<>>

C19_Witness ==
    /\ left_by_abort.exists
    /\ dec.pc = "done"
    /\ dec.result = "False"
    /\ dest.exists
    /\ Len(dest.data) > 0
    /\ Len(dest.data) < Len(file)

(***************************************************************************)
(* Properties of decoding any series, checked under SpecForeign.           *)
(***************************************************************************)
\* C11: when the header of image 1 carries an extra_bits that is not 0, 8 or
\* 16, decrypt_single_file ends with an error and has written no byte.
C11_HeaderValidation ==
    (dec.pc # "idle" /\ HeaderExtraBits(images) \notin {0, 8, 16}) =>
        /\ dec.pc = "done"
        /\ dec.result \in Exceptions
        /\ dec.out = <<>>

\* complete_pixels * 3 + ceil(extra_bits / 8) of the header of image 1, exactly
HeaderTotalDigits(imgs) ==
    MulAdd(Reverse(LengthBytesOf(HeaderPixelsOf(imgs[1]))) \o <<0, 0>>, 3,
           CeilDiv(HeaderExtraBits(imgs), 8))

\* C18: for any header and any images, in every step of the decode loop
\* bytes_written does not decrease and grows by at most 3 for the pixel read,
\* total_bytes is complete_pixels * 3 + ceil(extra_bits / 8) of the header,
\* and bytes_written is never above total_bytes.
C18_WriteCounter ==
    [][dec.pc = "loop" =>
          /\ dec'.bytes_written >= dec.bytes_written
          /\ dec'.bytes_written - dec.bytes_written <= 3
          /\ NpValue(numpy, DecodeTotalBytes(dec.complete_pixels, dec.extra_bits))
                = PyValue(HeaderTotalDigits(images))
          /\ dec.bytes_written <= dec.total_bytes
          /\ dec'.bytes_written <= dec'.total_bytes]_vars

(***************************************************************************)
(* Properties of directory mode, checked under SpecBatch.                  *)
(***************************************************************************)
GroupCount == Cardinality({b \in {"a", "b"} : HasFiles(b)})

\* C8: in directory mode an error raised while one series is decoded is caught;
\* every other series is still attempted, the run reaches its summary, and the
\* success count is the number of calls that returned True.
C8_BatchIsolation ==
    /\ batch.pc = "raised" => \A k \in SeriesKeys : dir[k] = <<>>
    /\ batch.pc = "loop" =>
          /\ batch.todo # <<>>
          /\ Len(batch.results) + Len(batch.todo) = GroupCount
          /\ HasFiles(Head(batch.todo))
    /\ batch.pc = "summary" =>
          /\ Len(batch.results) = GroupCount
          /\ batch.successful =
                Cardinality({i \in 1..Len(batch.results) : batch.results[i] = "True"})

C8_Witness ==
    /\ batch.pc = "summary"
    /\ Len(batch.results) = 2
    /\ batch.results[1] = "IndexError"
    /\ batch.results[2] = "True"
    /\ batch.successful = 1

\* C17: at the summary of directory mode every series in the directory, that
\* is every (base, ext) with image files, has been decoded by exactly one call
\* of decrypt_single_file, also when two series have the same base.
C17_SeriesGrouping ==
    batch.pc = "summary" =>
        \A k \in SeriesKeys :
            dir[k] # <<>> =>
                Cardinality({i \in 1..Len(batch.calls) : batch.calls[i] = k}) = 1

(***************************************************************************)
(* Properties of the header codec, checked under SpecHeader.               *)
(***************************************************************************)
\* floor(x / 256^k) mod 256 of a non-negative integer x
ByteOf(x, k) == IF k + 1 <= Len(x) THEN x[k + 1] ELSE 0

\* C14: for complete_pixels in 0..2^96-1 and extra_bits < 24,
\* create_header_pixels gives 5 pixels of 3 channels; channel j = 0..11 of
\* pixels 0-3, read in R, G, B order, is floor(complete_pixels / 256^(11-j))
\* mod 256, and pixel 4 is (0, 0, extra_bits).
C14_HeaderLayout ==
    hdr.pc \in {"encoded", "decoded"} =>
        /\ Len(hdr.pixels) = 5
        /\ \A i \in 1..5 : Len(hdr.pixels[i]) = 3
        /\ \A j \in 0..11 :
              hdr.pixels[(j \div 3) + 1][(j % 3) + 1] = ByteOf(hdr.complete_pixels, 11 - j)
        /\ hdr.pixels[5] = <<0, 0, hdr.extra_bits>>

C14_Witness ==
    /\ hdr.pc = "encoded"
    /\ hdr.complete_pixels = Digits(HeaderLengthBytes, 1, 255)
    /\ hdr.extra_bits = 23
    /\ hdr.pixels = << <<1, 255, 255>>, <<255, 255, 255>>, <<255, 255, 255>>,
                       <<255, 255, 255>>, <<0, 0, 23>> >>

\* C9: for complete_pixels in 0..2^96-1 and extra_bits < 24, the decoder's header
\* steps on create_header_pixels(complete_pixels, extra_bits) give back exactly
\* complete_pixels and extra_bits, and bytes_target is exactly complete_pixels * 3.
C9_HeaderRoundTrip ==
    hdr.pc = "decoded" =>
        /\ NpValue(numpy, hdr.decoded_complete_pixels) = PyValue(hdr.complete_pixels)
        /\ hdr.decoded_extra_bits = hdr.extra_bits
        /\ NpValue(numpy, hdr.bytes_target)
              = PyValue(MulAdd(hdr.complete_pixels \o <<0>>, 3, 0))

====
